---- MODULE Spec2Model ----
(***************************************************************************)
(* Model of datasets_preprocess/match_images.py: extract_identifier and    *)
(* find_matching_images.                                                   *)
(*                                                                         *)
(* A file name is a sequence of one-character strings.  A path is a record *)
(* [root |-> sequence of directory names, file |-> file name], the model   *)
(* of os.path.join(root, file).                                            *)
(***************************************************************************)
EXTENDS Integers, Sequences, FiniteSets, TLC

VARIABLES
    srcListing,     \* os.listdir(source_folder), in the order the OS returns it
    walk1,          \* the (root, file) pairs os.walk(folder1) yields, in order
    walk2,          \* the same for folder2
    source_files,   \* line 27
    folder1_dict,   \* lines 30-38
    folder2_dict,   \* lines 40-48
    index,          \* position of the loop of line 52 (next entry to process)
    matches_found,  \* line 51
    dest,           \* the destination folder: file name -> what was written
    out,            \* the lines printed so far, in order
    summary,        \* << >>, or <<n>> once line 92 printed the total n
    copied,         \* the shutil.copy2 calls of this run that returned, in order
    failed,         \* << >>, or <<index, slot>> of the copy2 call that raised
    pc,             \* "start", "loop", "done", "aborted" ("off" when unused)
    run,            \* 1 for the first invocation, 2 for a repeated one
    prev,           \* the copy2 calls of the completed first invocation
    ex_name,        \* argument of a stand-alone extract_identifier call
    ex_result       \* its result, << "pending" >> before the call

vars == <<srcListing, walk1, walk2, source_files, folder1_dict, folder2_dict,
          index, matches_found, dest, out, summary, copied, failed, pc, run,
          prev, ex_name, ex_result>>

mainVars == <<srcListing, walk1, walk2, source_files, folder1_dict,
              folder2_dict, index, matches_found, dest, out, summary, copied,
              failed, pc, run, prev>>

-----------------------------------------------------------------------------
(* Bounds of the model. *)

\* files in the source directory
MaxSrc == 2
\* files in each candidate tree
MaxCand == 2
\* longest digit run of a stand-alone extract_identifier argument
MaxDigits == 6

-----------------------------------------------------------------------------
(* Characters and strings. *)

NL == "\n"

Digit == <<"0", "1", "2", "3", "4", "5", "6", "7", "8", "9">>

\* \d of the pattern of line 8, on the characters the model uses
IsDigit(c) == \E d \in 1..10 : Digit[d] = c

\* Code point of a character: Python compares and sorts str by code point.
Ord(c) ==
    CASE c = NL -> 10
      [] c = "." -> 46
      [] IsDigit(c) -> 47 + (CHOOSE d \in 1..10 : Digit[d] = c)
      [] c = "G" -> 71
      [] c = "J" -> 74
      [] c = "P" -> 80
      [] c = "_" -> 95
      [] c = "a" -> 97
      [] c = "b" -> 98
      [] c = "c" -> 99
      [] c = "g" -> 103
      [] c = "j" -> 106
      [] c = "n" -> 110
      [] c = "p" -> 112
      [] c = "s" -> 115
      [] c = "x" -> 120

\* str.lower() on one character
LowerChar(c) ==
    CASE c = "G" -> "g"
      [] c = "J" -> "j"
      [] c = "P" -> "p"
      [] OTHER -> c

lower(s) == [k \in 1..Len(s) |-> LowerChar(s[k])]

endswith(s, suffix) ==
    /\ Len(s) >= Len(suffix)
    /\ SubSeq(s, Len(s) - Len(suffix) + 1, Len(s)) = suffix

JPG == <<".", "j", "p", "g">>

\* Python's a < b on str
StrLess(a, b) ==
    \E k \in 1..(Len(a) + 1) :
        /\ \A m \in 1..(k - 1) : m <= Len(b) /\ a[m] = b[m]
        /\ k <= Len(b)
        /\ (k <= Len(a) => Ord(a[k]) < Ord(b[k]))

\* Python's None
None == << "None" >>

\* truth value of a str-or-None, as "if truncated_id:" takes it
Truthy(x) == x # None /\ x # << >>

-----------------------------------------------------------------------------
(* extract_identifier, lines 6-15. *)

\* number of \d characters of s that end at position p, going left
RECURSIVE DigitRun(_, _)
DigitRun(s, p) ==
    IF p >= 1 /\ IsDigit(s[p]) THEN 1 + DigitRun(s, p - 1) ELSE 0

\* where "$" of the pattern matches: at the end of the string, and just
\* before a newline that is the last character of the string
DollarAt(s) ==
    {Len(s)} \cup (IF Len(s) >= 1 /\ s[Len(s)] = NL THEN {Len(s) - 1} ELSE {})

\* number of the characters dropped from a digit run longer than this
TruncLen == 5

\* re.search(r'(\d+)\.jpg$', filename): the positions e such that ".jpg" ends
\* at e, "$" matches after e and a digit stands before ".jpg"
MatchEnds(filename) ==
    {e \in DollarAt(filename) :
        /\ e >= Len(JPG) + 1
        /\ SubSeq(filename, e - Len(JPG) + 1, e) = JPG
        /\ DigitRun(filename, e - Len(JPG)) >= 1}

extract_identifier_nocase(filename) ==
    LET low == lower(filename)
        ends == MatchEnds(low)
    IN  IF ends = {} THEN None
        ELSE LET e == CHOOSE x \in ends : TRUE
                 n == DigitRun(low, e - Len(JPG))
                 full_id == SubSeq(low, e - Len(JPG) - n + 1, e - Len(JPG))
             IN  IF Len(full_id) > TruncLen
                 THEN SubSeq(full_id, 1, Len(full_id) - TruncLen)
                 ELSE full_id

extract_identifier(filename) ==
    LET ends == MatchEnds(filename)
    IN  IF ends = {} THEN None
        ELSE LET e == CHOOSE x \in ends : TRUE
                 \* \d+ is greedy and the search takes the leftmost match:
                 \* group(1) is the whole digit run before ".jpg"
                 n == DigitRun(filename, e - Len(JPG))
                 full_id == SubSeq(filename, e - Len(JPG) - n + 1, e - Len(JPG))
             IN  IF Len(full_id) > TruncLen
                 THEN SubSeq(full_id, 1, Len(full_id) - TruncLen)
                 ELSE full_id

-----------------------------------------------------------------------------
(* The directories and the files they may hold. *)

SourceFolder == << <<"s">> >>
Folder1 == << <<"a">> >>
Folder1Sub == << <<"a">>, <<"c">> >>
Folder2 == << <<"b">> >>
Folder2Sub == << <<"b">>, <<"c">> >>

Zeros == <<"0", "0", "0", "0", "0">>
UpperJPG == <<".", "J", "P", "G">>

Name12Long == <<"1", "2">> \o Zeros \o JPG       \* "1200000.jpg"
Name12Short == <<"1", "2">> \o JPG               \* "12.jpg"
Name11Upper == <<"1", "1">> \o Zeros \o UpperJPG \* "1100000.JPG"
Name12Newline == <<"1", "2">> \o JPG \o <<NL>>   \* "12.jpg" and a newline

SrcPool == {Name12Long, Name12Short, Name11Upper, Name12Newline}

Path(root, file) == [root |-> root, file |-> file]

CandPool(root, sub) ==
    {Path(root, Name12Long), Path(root, Name12Short),
     Path(root, Name11Upper), Path(sub, Name12Long)}

InjSeqs(S, n) ==
    UNION {{s \in [1..k -> S] : \A i, j \in 1..k : s[i] = s[j] => i = j} :
           k \in 0..n}

\* os.walk is top-down: the files of the root come before those of a
\* subdirectory; within a directory the order is the file system's
Walks(root, sub) ==
    {w \in InjSeqs(CandPool(root, sub), MaxCand) :
        \A i, j \in 1..Len(w) : (i < j /\ w[i].root = sub) => w[j].root = sub}

\* os.path.basename(os.path.normpath(d)) of a directory d
DirName(root) == root[Len(root)]

-----------------------------------------------------------------------------
(* The pieces of find_matching_images, lines 17-92. *)

\* the filter of lines 27, 33 and 43
IsJpg(f) == endswith(lower(f), JPG)

SourceListUnsorted(listing) == SelectSeq(listing, IsJpg)

\* line 27
SourceList(listing) == SelectSeq(SortSeq(listing, StrLess), IsJpg)

\* one round of the loop body of lines 32-38 (43-48)
IndexFile(d, e) ==
    LET truncated_id == extract_identifier(e.file)
    IN  IF IsJpg(e.file) /\ Truthy(truncated_id)
        THEN IF truncated_id \in DOMAIN d
             THEN [d EXCEPT ![truncated_id] = Append(@, e)]
             ELSE (truncated_id :> <<e>>) @@ d
        ELSE d

RECURSIVE IndexWalk(_, _)
IndexWalk(d, walk) ==
    IF walk = << >> THEN d ELSE IndexWalk(IndexFile(d, Head(walk)), Tail(walk))

\* lines 30-38 and 40-48
BuildIndex(walk) == IndexWalk(<< >>, walk)

Folder2WalkOfFolder1 == walk1

\* the tree line 41 walks
Folder2Walk == walk2

\* f"{index:04d}"
PadWidth == 4

RECURSIVE Decimal(_)
Decimal(n) == IF n < 10 THEN <<Digit[n + 1]>>
              ELSE Append(Decimal(n \div 10), Digit[(n % 10) + 1])

RECURSIVE PadLeft(_, _)
PadLeft(s, w) == IF Len(s) >= w THEN s ELSE PadLeft(<<"0">> \o s, w)

Format04d(n) == PadLeft(Decimal(n), PadWidth)

DestNameNoSlot(idx, slot, folder_name, basename) ==
    Format04d(idx) \o <<"_">> \o folder_name \o <<"_">> \o basename

\* lines 78-80
DestName(idx, slot, folder_name, basename) ==
    Format04d(idx) \o <<"_">> \o Decimal(slot) \o <<"_">> \o folder_name
        \o <<"_">> \o basename

\* line 61
Matches(truncated_id) ==
    /\ truncated_id \in DOMAIN folder1_dict
    /\ truncated_id \in DOMAIN folder2_dict

SelectLast(paths) == paths[Len(paths)]

\* lines 63-64
SelectFirst(paths) == paths[1]

\* the three copy2 calls of lines 83-85 for the entry at idx, in order
Copies(idx) ==
    LET source_file == source_files[idx + 1]
        truncated_id == extract_identifier(source_file)
        source_path == Path(SourceFolder, source_file)
        folder1_path == SelectFirst(folder1_dict[truncated_id])
        folder2_path == SelectFirst(folder2_dict[truncated_id])
        c(slot, p) ==
            [index |-> idx, slot |-> slot, src |-> p,
             dst |-> DestName(idx, slot, DirName(p.root), p.file)]
    IN  <<c(1, source_path), c(2, folder1_path), c(3, folder2_path)>>

\* shutil.copy2 creates or overwrites the destination file
Put(d, c, whole) == (c.dst :> [from |-> c.src, whole |-> whole]) @@ d

RECURSIVE PutAll(_, _)
PutAll(d, cs) ==
    IF cs = << >> THEN d ELSE PutAll(Put(d, Head(cs), TRUE), Tail(cs))

\* lines 66-67
MultiNotice(idx) ==
    LET truncated_id == extract_identifier(source_files[idx + 1])
    IN  IF \/ Len(folder1_dict[truncated_id]) > 1
           \/ Len(folder2_dict[truncated_id]) > 1
        THEN << [kind |-> "multi", at |-> idx, text |-> truncated_id] >>
        ELSE << >>

MatchesAfterEager(mf, returned) == mf + 1

\* line 87 is reached only when the three copies returned
MatchesAfter(mf, returned) == IF returned = 3 THEN mf + 1 ELSE mf

ReportedTotalProcessed == index

\* the number line 92 prints
ReportedTotal == matches_found

-----------------------------------------------------------------------------
(* The state machine. *)

NoExtract == ex_name = << >> /\ ex_result = None

Fresh ==
    /\ source_files = << >>
    /\ folder1_dict = << >>
    /\ folder2_dict = << >>
    /\ index = 0
    /\ matches_found = 0
    /\ out = << >>
    /\ summary = << >>
    /\ copied = << >>
    /\ failed = << >>

\* find_matching_images is called on some directories; the destination
\* is empty
Init ==
    /\ srcListing \in InjSeqs(SrcPool, MaxSrc)
    /\ walk1 \in Walks(Folder1, Folder1Sub)
    /\ walk2 \in Walks(Folder2, Folder2Sub)
    /\ Fresh
    /\ dest = << >>
    /\ pc = "start"
    /\ run = 1
    /\ prev = << >>
    /\ NoExtract

\* lines 24-51
Setup ==
    /\ pc = "start"
    /\ source_files' = SourceList(srcListing)
    /\ folder1_dict' = BuildIndex(walk1)
    /\ folder2_dict' = BuildIndex(Folder2Walk)
    /\ matches_found' = 0
    /\ index' = 0
    /\ pc' = "loop"
    /\ UNCHANGED <<srcListing, walk1, walk2, dest, out, summary, copied,
                   failed, run, prev, ex_name, ex_result>>

\* os.makedirs of line 24 or os.listdir of line 27 raises
SetupFail ==
    /\ pc = "start"
    /\ pc' = "aborted"
    /\ UNCHANGED <<srcListing, walk1, walk2, source_files, folder1_dict,
                   folder2_dict, index, matches_found, dest, out, summary,
                   copied, failed, run, prev, ex_name, ex_result>>

InLoop == pc = "loop" /\ index < Len(source_files)

Skip(kind, text) ==
    /\ out' = Append(out, [kind |-> kind, at |-> index, text |-> text])
    /\ index' = index + 1
    /\ UNCHANGED <<srcListing, walk1, walk2, source_files, folder1_dict,
                   folder2_dict, matches_found, dest, summary, copied, failed,
                   pc, run, prev, ex_name, ex_result>>

\* lines 53-58
IterNoId ==
    /\ InLoop
    /\ ~Truthy(extract_identifier(source_files[index + 1]))
    /\ Skip("noid", source_files[index + 1])

\* lines 53-61, 89-90
IterNoMatch ==
    /\ InLoop
    /\ Truthy(extract_identifier(source_files[index + 1]))
    /\ ~Matches(extract_identifier(source_files[index + 1]))
    /\ Skip("nomatch", extract_identifier(source_files[index + 1]))

\* lines 53-88, the three copies return
IterMatch ==
    /\ InLoop
    /\ Truthy(extract_identifier(source_files[index + 1]))
    /\ Matches(extract_identifier(source_files[index + 1]))
    /\ dest' = PutAll(dest, Copies(index))
    /\ copied' = copied \o Copies(index)
    /\ matches_found' = MatchesAfter(matches_found, 3)
    /\ out' = out \o MultiNotice(index) \o
                << [kind |-> "matched", at |-> index,
                    text |-> extract_identifier(source_files[index + 1])] >>
    /\ index' = index + 1
    /\ UNCHANGED <<srcListing, walk1, walk2, source_files, folder1_dict,
                   folder2_dict, summary, failed, pc, run, prev, ex_name,
                   ex_result>>

\* lines 53-85, the copy2 call of slot k raises; the file it was writing is
\* absent or incomplete
IterCopyFail ==
    /\ InLoop
    /\ Truthy(extract_identifier(source_files[index + 1]))
    /\ Matches(extract_identifier(source_files[index + 1]))
    /\ \E k \in 1..3, partial \in BOOLEAN :
         LET done == SubSeq(Copies(index), 1, k - 1)
             kept == PutAll(dest, done)
         IN  /\ dest' = IF partial THEN Put(kept, Copies(index)[k], FALSE)
                        ELSE kept
             /\ copied' = copied \o done
             /\ matches_found' = MatchesAfter(matches_found, k - 1)
             /\ failed' = <<index, k>>
    /\ out' = out \o MultiNotice(index)
    /\ pc' = "aborted"
    /\ UNCHANGED <<srcListing, walk1, walk2, source_files, folder1_dict,
                   folder2_dict, index, summary, run, prev, ex_name,
                   ex_result>>

\* line 92
Report ==
    /\ pc = "loop"
    /\ index = Len(source_files)
    /\ summary' = <<ReportedTotal>>
    /\ pc' = "done"
    /\ UNCHANGED <<srcListing, walk1, walk2, source_files, folder1_dict,
                   folder2_dict, index, matches_found, dest, out, copied,
                   failed, run, prev, ex_name, ex_result>>

Next ==
    \/ Setup
    \/ SetupFail
    \/ IterNoId
    \/ IterNoMatch
    \/ IterMatch
    \/ IterCopyFail
    \/ Report

Spec == Init /\ [][Next]_vars

-----------------------------------------------------------------------------
(* A second invocation on the same, unchanged directories. *)

\* a new call of find_matching_images: its locals are new, the directories
\* and the destination are as the first call left them
Rerun ==
    /\ pc = "done"
    /\ run = 1
    /\ run' = 2
    /\ prev' = copied
    /\ pc' = "start"
    /\ source_files' = << >>
    /\ folder1_dict' = << >>
    /\ folder2_dict' = << >>
    /\ index' = 0
    /\ matches_found' = 0
    /\ out' = << >>
    /\ summary' = << >>
    /\ copied' = << >>
    /\ failed' = << >>
    /\ UNCHANGED <<srcListing, walk1, walk2, dest, ex_name, ex_result>>

NextTwice ==
    \/ Setup
    \/ SetupFail
    \/ IterNoId
    \/ IterNoMatch
    \/ IterMatch
    \/ IterCopyFail
    \/ Report
    \/ Rerun

SpecTwice == Init /\ [][NextTwice]_vars

-----------------------------------------------------------------------------
(* extract_identifier on its own. *)

Pending == << "pending" >>

RECURSIVE Strings(_, _)
Strings(alphabet, n) ==
    IF n = 0 THEN {<< >>}
    ELSE Strings(alphabet, n - 1) \cup
         {Append(s, c) : s \in Strings(alphabet, n - 1), c \in alphabet}

ExPrefixes == {<< >>, <<"a">>, <<"7", "_">>, <<"7", ".">>}

ExSuffixes ==
    {JPG, UpperJPG, JPG \o <<NL>>, JPG \o <<NL, NL>>, JPG \o <<"x">>,
     <<"j", "p", "g">>, <<".", "p", "n", "g">>, << >>}

ExNames ==
    {p \o d \o x : p \in ExPrefixes, d \in Strings({"0", "7"}, MaxDigits),
                   x \in ExSuffixes}

InitExtract ==
    /\ srcListing = << >>
    /\ walk1 = << >>
    /\ walk2 = << >>
    /\ Fresh
    /\ dest = << >>
    /\ pc = "off"
    /\ run = 1
    /\ prev = << >>
    /\ ex_name \in ExNames
    /\ ex_result = Pending

Extract ==
    /\ pc = "off"
    /\ ex_result = Pending
    /\ ex_result' = extract_identifier(ex_name)
    /\ UNCHANGED <<mainVars, ex_name>>

NextExtract == Extract

SpecExtract == InitExtract /\ [][NextExtract]_vars

-----------------------------------------------------------------------------
(* A long source directory: the pass after its first FillerCount entries,  *)
(* none of which has an identifier, were skipped one by one.               *)

\* the first index wider than the padding is FillerCount + 1
FillerCount == (10 ^ PadWidth) - 1

\* "00000_.jpg", "00001_.jpg", ...: no digit stands before ".jpg"
Filler(k) == <<"0">> \o Format04d(k) \o <<"_">> \o JPG

Fillers == [k \in 1..FillerCount |-> Filler(k - 1)]

\* candidate trees of the long run
BigWalks(root, sub) ==
    {<<Path(root, Name11Upper)>>,
     <<Path(sub, Name12Long)>>,
     <<Path(root, Name12Short), Path(sub, Name12Long)>>}

InitBig ==
    /\ \E tail \in InjSeqs(SrcPool, MaxSrc) : srcListing = tail \o Fillers
    /\ source_files = SourceList(srcListing)
    /\ {k \in 1..FillerCount : Truthy(extract_identifier(source_files[k]))} = {}
    /\ out = [k \in 1..FillerCount |->
                 [kind |-> "noid", at |-> k - 1, text |-> source_files[k]]]
    /\ index = FillerCount
    /\ walk1 \in BigWalks(Folder1, Folder1Sub)
    /\ walk2 \in BigWalks(Folder2, Folder2Sub)
    /\ folder1_dict = BuildIndex(walk1)
    /\ folder2_dict = BuildIndex(Folder2Walk)
    /\ matches_found = 0
    /\ summary = << >>
    /\ copied = << >>
    /\ failed = << >>
    /\ dest = << >>
    /\ pc = "loop"
    /\ run = 1
    /\ prev = << >>
    /\ NoExtract

NextBig ==
    \/ IterNoId
    \/ IterNoMatch
    \/ IterMatch
    \/ IterCopyFail
    \/ Report

SpecBig == InitBig /\ [][NextBig]_vars

-----------------------------------------------------------------------------
(* Vocabulary of the properties, stated on the directories and on what the *)
(* pass printed and copied.                                                *)

Range(f) == {f[k] : k \in DOMAIN f}

\* the pass got past lines 24-51
SetUp == pc \in {"loop", "done"} \/ failed # << >>

\* the identifier of the source file at position idx (zero-based)
IdAt(idx) == extract_identifier(source_files[idx + 1])

\* the files of a tree that are indexed under id, in traversal order
Indexed(walk, id) ==
    SelectSeq(walk, LAMBDA e : IsJpg(e.file) /\ extract_identifier(e.file) = id)

\* id is a key of the index of both trees
InBoth(id) ==
    /\ Truthy(id)
    /\ Indexed(walk1, id) # << >>
    /\ Indexed(walk2, id) # << >>

\* the lines printed about one source file each
FileLines == SelectSeq(out, LAMBDA l : l.kind # "multi")

Line(kind, idx, text) == [kind |-> kind, at |-> idx, text |-> text]

CopiesOf(idx) == SelectSeq(copied, LAMBDA c : c.index = idx)

\* the name is <digits> and an extension that is ".jpg" but for its case
UpperExtension(f) ==
    /\ IsJpg(f)
    /\ ~endswith(f, JPG)
    /\ Len(f) > Len(JPG)
    /\ IsDigit(f[Len(f) - Len(JPG)])

-----------------------------------------------------------------------------
(* The claims. *)

\* C1: the three files of a source file are copied, and the match count
\* grows, only if its identifier exists and is a key of both indices; for
\* a source file whose identifier is in one index or in none nothing is
\* copied and the count stays.
C1_MatchOnlyInBoth ==
    SetUp =>
        /\ \A k \in DOMAIN copied : InBoth(IdAt(copied[k].index))
        /\ \A k \in DOMAIN out :
               out[k].kind = "matched" => InBoth(IdAt(out[k].at))
        /\ matches_found =
               Cardinality({i \in 0..(index - 1) : InBoth(IdAt(i))})
        /\ \A i \in 0..(index - 1) :
               ~InBoth(IdAt(i)) =>
                   /\ CopiesOf(i) = << >>
                   /\ \A n \in DOMAIN dest : dest[n].from.file # source_files[i + 1]
                                             \/ dest[n].from.root # SourceFolder

\* a source file whose identifier is in the index of folder1 only was
\* processed, and nothing was copied
C1_Witness ==
    /\ pc = "done"
    /\ copied = << >>
    /\ \E i \in 0..(index - 1) :
           /\ Truthy(IdAt(i))
           /\ Indexed(walk1, IdAt(i)) # << >>
           /\ Indexed(walk2, IdAt(i)) = << >>
           /\ Line("nomatch", i, IdAt(i)) \in Range(out)

\* C2: extract_identifier returns the digit run before a final ".jpg",
\* without its last 5 characters when it is longer than 5; it returns
\* None for every name that has no digit right before a final ".jpg"; it
\* never returns the empty string.
C2_TruncationLaw ==
    ex_result # Pending =>
        LET stem == SubSeq(ex_name, 1, Len(ex_name) - Len(JPG))
            n == Len(stem)
            digitBefore == endswith(ex_name, JPG) /\ n >= 1 /\ IsDigit(stem[n])
        IN  /\ \A k \in 1..n :
                   (/\ endswith(ex_name, JPG)
                    /\ \A m \in (n - k + 1)..n : IsDigit(stem[m])
                    /\ (k = n \/ ~IsDigit(stem[n - k])))
                   => ex_result = IF k > 5 THEN SubSeq(stem, n - k + 1, n - 5)
                                  ELSE SubSeq(stem, n - k + 1, n)
            /\ ~digitBefore => ex_result = None
            /\ ex_result # << >>

\* C3: the index in the names of a group is the zero-based position of its
\* source file in the sorted Source List, skipped entries counted; groups
\* are emitted with strictly increasing indices, whatever the order of the
\* directory listing.
C3_IndexIsSortedPosition ==
    SetUp =>
        /\ Range(source_files) = {f \in Range(srcListing) : IsJpg(f)}
        /\ \A i, j \in DOMAIN source_files :
               i < j => StrLess(source_files[i], source_files[j])
        /\ \A k \in DOMAIN copied :
               LET c == copied[k]
               IN  /\ c.index \in 0..(Len(source_files) - 1)
                   /\ c.slot = 1 =>
                          c.src = Path(SourceFolder, source_files[c.index + 1])
                   /\ SubSeq(c.dst, 1, Len(Format04d(c.index)) + 1)
                          = Format04d(c.index) \o <<"_">>
        /\ \A i, j \in DOMAIN copied :
               i < j => \/ copied[i].index < copied[j].index
                        \/ /\ copied[i].index = copied[j].index
                           /\ copied[i].slot < copied[j].slot

\* the listing is not in sorted order, the first entry was skipped and the
\* second emitted with index 1
C3_Witness ==
    /\ pc = "done"
    /\ SelectSeq(srcListing, IsJpg) # source_files
    /\ CopiesOf(0) = << >>
    /\ Len(CopiesOf(1)) = 3

\* C4: with the destination empty at the start, the destination names in
\* lexicographic order are the groups in Source List order, each group's
\* files in slot order 1, 2, 3 - for every Source List length.
C4_ListingKeepsGroupOrder ==
    (pc = "done" /\ run = 1) =>
        \A i, j \in DOMAIN copied :
            i < j => StrLess(copied[i].dst, copied[j].dst)

\* C5: the path copied from a folder is the first one appended to the
\* index for the identifier; no other path is copied and the first is not
\* consumed.
C5_FirstCandidate ==
    SetUp =>
        /\ folder1_dict = BuildIndex(walk1)
        /\ folder2_dict = BuildIndex(walk2)
        /\ \A k \in DOMAIN copied :
               LET c == copied[k]
               IN  /\ c.slot = 2 => c.src = Indexed(walk1, IdAt(c.index))[1]
                   /\ c.slot = 3 => c.src = Indexed(walk2, IdAt(c.index))[1]

\* two source files of one identifier were matched, folder1 holds two
\* files of that identifier and both groups took the same one
C5_Witness ==
    /\ pc = "done"
    /\ Len(CopiesOf(0)) = 3
    /\ Len(CopiesOf(1)) = 3
    /\ IdAt(0) = IdAt(1)
    /\ Len(Indexed(walk1, IdAt(0))) > 1
    /\ CopiesOf(0)[2].src = CopiesOf(1)[2].src

C6_Outcomes ==
    /\ pc \in {"loop", "done"} =>
           /\ Len(FileLines) = index
           /\ \A k \in DOMAIN FileLines :
                  /\ FileLines[k].at = k - 1
                  /\ FileLines[k].kind \in {"noid", "nomatch", "matched"}
           /\ Len(copied) =
                  3 * Cardinality({k \in DOMAIN out : out[k].kind = "matched"})
    /\ pc = "loop" => index <= Len(source_files)
    /\ pc = "done" =>
           /\ index = Len(source_files)
           /\ summary = <<Len(copied) \div 3>>

C6_Progress ==
    pc = "loop" =>
        \/ pc' = "loop" /\ index' = index + 1 /\ index' <= Len(source_files)
        \/ pc' = "done"
        \/ pc' = "aborted" /\ failed' # << >>

\* C6: when no copy fails, every entry of the Source List is processed
\* once, in order, with one of the three outcomes, and the pass ends by
\* reporting the number of groups emitted, however many entries were
\* skipped.
C6_PassCompletes == []C6_Outcomes /\ [][C6_Progress]_vars

\* a pass with a skipped entry and a matched entry ended
C6_Witness ==
    /\ pc = "done"
    /\ \E k \in DOMAIN out : out[k].kind \in {"noid", "nomatch"}
    /\ summary = <<1>>

\* C8: when a copy fails, the later copies of the group are not made, the
\* count does not grow for the group, no later entry is processed, no total
\* is reported and the files copied before the failure stay.
C8_CopyFailureIsFatal ==
    failed # << >> =>
        /\ pc = "aborted"
        /\ ~ENABLED Next
        /\ index = failed[1]
        /\ [k \in DOMAIN CopiesOf(failed[1]) |-> CopiesOf(failed[1])[k].slot]
               = [k \in 1..(failed[2] - 1) |-> k]
        /\ \A k \in DOMAIN copied : copied[k].index <= failed[1]
        /\ 3 * matches_found = Len(copied) - (failed[2] - 1)
        /\ \A k \in DOMAIN out :
               /\ out[k].at <= failed[1]
               /\ out[k].at = failed[1] => out[k].kind = "multi"
        /\ summary = << >>
        /\ \A k \in DOMAIN copied :
               /\ copied[k].dst \in DOMAIN dest
               /\ dest[copied[k].dst] = [from |-> copied[k].src, whole |-> TRUE]

\* the third copy of the second group failed
C8_Witness ==
    /\ failed = <<1, 3>>
    /\ Len(copied) = 5
    /\ matches_found = 1

\* C9: a name of digits and an extension that is ".jpg" in another case
\* passes the filter: in the source folder it takes a position of the
\* Source List, is reported as without identifier and is never matched; in
\* folder1 and folder2 it is left out of the index and never selected.
C9_UpperCaseExtension ==
    SetUp =>
        /\ \A f \in Range(srcListing) :
               UpperExtension(f) => f \in Range(source_files)
        /\ \A i \in 0..(index - 1) :
               UpperExtension(source_files[i + 1]) =>
                   /\ Line("noid", i, source_files[i + 1]) \in Range(out)
                   /\ CopiesOf(i) = << >>
        /\ \A e \in Range(walk1) :
               UpperExtension(e.file) =>
                   /\ \A id \in DOMAIN folder1_dict : e \notin Range(folder1_dict[id])
                   /\ \A k \in DOMAIN copied : copied[k].src # e
        /\ \A e \in Range(walk2) :
               UpperExtension(e.file) =>
                   /\ \A id \in DOMAIN folder2_dict : e \notin Range(folder2_dict[id])
                   /\ \A k \in DOMAIN copied : copied[k].src # e

\* "1100000.JPG" is in the three folders; the source file took index 0 and
\* was skipped, the next source file was matched
C9_Witness ==
    /\ pc = "done"
    /\ Len(source_files) = 2
    /\ source_files[1] = Name11Upper
    /\ Path(Folder1, Name11Upper) \in Range(walk1)
    /\ Path(Folder2, Name11Upper) \in Range(walk2)
    /\ Len(CopiesOf(1)) = 3

\* C10: no two copies of a run have the same destination name, also with
\* indices of 5 digits; a complete run into an empty destination leaves
\* 3 x (reported count) files.
C10_DistinctDestNames ==
    /\ \A i, j \in DOMAIN copied : copied[i].dst = copied[j].dst => i = j
    /\ failed # << >> =>
           \A k \in DOMAIN copied :
               copied[k].dst # Copies(failed[1])[failed[2]].dst
    /\ (pc = "done" /\ run = 1) =>
           /\ Cardinality(DOMAIN dest) = 3 * summary[1]
           /\ DOMAIN dest = {copied[k].dst : k \in DOMAIN copied}

\* groups of index 9999 and 10000 were emitted, with the same file of the
\* same directory name taken from folder1 and from folder2
C10_Witness ==
    /\ pc = "done"
    /\ summary = <<2>>
    /\ Len(CopiesOf(FillerCount)) = 3
    /\ Len(CopiesOf(FillerCount + 1)) = 3
    /\ Len(Format04d(FillerCount + 1)) = PadWidth + 1
    /\ DirName(copied[2].src.root) = DirName(copied[3].src.root)
    /\ copied[2].src.file = copied[3].src.file

====
